---- MODULE Spec2Model ----
(***************************************************************************)
(* Punk Records: ingestion + projection engine.                            *)
(*                                                                         *)
(* The model covers the HTTP ingest handler, the backbone topic (one       *)
(* partition), the consumer loop of the projection worker, the event log,  *)
(* the memory store, the promotion evaluator, auto-promotion and replay.   *)
(*                                                                         *)
(* Conventions:                                                            *)
(*   - timestamps are integers counting hours (UTC); a timestamp on the    *)
(*     wire is a pair <<local, offset>> that validation normalises to UTC; *)
(*   - a nullable timestamp column holds NULL;                             *)
(*   - confidence is kept in hundredths (0.75 is 75);                      *)
(*   - UUIDs are integers; uuid4() draws a value never handed out before;  *)
(*   - a payload is a record whose DOMAIN holds exactly the keys present.  *)
(***************************************************************************)
EXTENDS Integers, Sequences, FiniteSets, TLC

VARIABLES
    topic,      \* backbone partition: sequence of wire messages
    position,   \* consumer's in-memory fetch position (next offset, 0-based)
    committed,  \* offset committed for the consumer group
    log,        \* events table, in insertion order
    mem,        \* memory_entries table (set of rows)
    cursor,     \* projection_cursor row 'global' (sequence of length 0 or 1)
    now,        \* wall clock read by NOW()
    uuids,      \* number of uuid4() values drawn by the projection engine
    inputs,     \* request bodies the clients of this run may POST
    resp,       \* the response to the last POST /events request
    last,       \* what the last iteration of the consumer loop did
    done,       \* offsets whose persist and projection both completed
    swept,      \* entry ids that met the promotion rule during some sweep
    clean,      \* workspaces replayed with no worker iteration since
    restarts,   \* consumer restarts so far
    faults,     \* transient store / backbone errors injected so far
    rp          \* the replay request in progress, statement by statement

vars == <<topic, position, committed, log, mem, cursor, now, uuids, inputs,
          resp, last, done, swept, clean, restarts, faults, rp>>

-----------------------------------------------------------------------------
(* Bounds of the model                                                     *)

MaxPosts == 3
MaxSynthetic == 2
MaxRestarts == 1
MaxFaults == 1
MaxReplays == 1

-----------------------------------------------------------------------------
(* Constants of the program                                                *)

CONFIDENCE_THRESHOLD == 75
REFERENCE_WINDOW_DAYS == 7
MIN_REFERENCES == 2
DEFAULT_EPHEMERAL_TTL_HOURS == 24
NULL == -1

HoursPerDay == 24

EventTypes ==
    {"proposal.created", "decision.recorded", "risk.detected",
     "finding.logged", "task.created", "task.updated",
     "memory.candidate", "memory.promoted", "memory.retracted"}

MEMORY_EVENT_TYPES == {"memory.candidate", "memory.promoted", "memory.retracted"}

Severities == {"low", "medium", "high"}

MemoryBuckets == {"global", "workspace", "ephemeral"}

EngineSatellite == "punk-records.projection-engine"

\* main.py builds the projection engine with the producer.
HasProducerOff == FALSE

HasProducer == TRUE

-----------------------------------------------------------------------------
(* Envelope: validation and wire round trip                                *)

EmptyPayload == [k \in {} |-> 0]

PayloadGet(p, k, d) == IF k \in DOMAIN p THEN p[k] ELSE d

\* normalize_ts_to_utc: an offset-aware timestamp is converted to UTC
NormalizeTs(t) == t[1] - t[2]

\* the field constraints of EventEnvelope
IsValidBody(b) ==
    /\ b.schema_version = 1
    /\ b.workspace_id # ""
    /\ b.satellite_id # ""
    /\ b.type \in EventTypes
    /\ b.severity \in Severities
    /\ b.confidence \in 0..100

\* EventEnvelope.model_validate on a body that satisfies the constraints
ModelValidate(b) == [b EXCEPT !.ts = NormalizeTs(b.ts)]

\* a model_dump_json that writes the timestamp with an offset it did not
\* convert to
ToKafkaValueLocal(e) == [e EXCEPT !.ts = <<e.ts, 1>>]

\* model_dump_json: the UTC timestamp is written with offset 0
ToKafkaValue(e) == [e EXCEPT !.ts = <<e.ts, 0>>]

\* model_validate_json: parse and re-validate; raises on invalid bytes
FromKafkaValue(w) ==
    IF IsValidBody(w) THEN [raised |-> FALSE, event |-> ModelValidate(w)]
                      ELSE [raised |-> TRUE, event |-> w]

-----------------------------------------------------------------------------
(* Event log (store/event_store.py)                                        *)

\* the row INSERT_SQL writes; json.dumps of the payload is one-to-one and
\* replay reads it back with json.loads
EventRow(e) ==
    [event_id |-> e.event_id, ts |-> e.ts, workspace_id |-> e.workspace_id,
     satellite_id |-> e.satellite_id, trace_id |-> e.trace_id,
     type |-> e.type, severity |-> e.severity, confidence |-> e.confidence,
     payload_json |-> e.payload]

LogIds(lg) == {lg[i].event_id : i \in 1..Len(lg)}

\* a persist that appends without ON CONFLICT (event_id) DO NOTHING
PersistNoConflict(lg, e) ==
    [inserted |-> TRUE, log |-> Append(lg, EventRow(e))]

\* EventStore.persist
Persist(lg, e) ==
    IF e.event_id \in LogIds(lg)
    THEN [inserted |-> FALSE, log |-> lg]
    ELSE [inserted |-> TRUE, log |-> Append(lg, EventRow(e))]

\* EventStore.count_references
CountReferences(lg, workspace_id, trace_id, since_ts) ==
    Cardinality({i \in 1..Len(lg) :
        /\ lg[i].workspace_id = workspace_id
        /\ lg[i].trace_id = trace_id
        /\ lg[i].ts >= since_ts})

\* EventStore.has_event_type_in_trace
HasEventTypeInTrace(lg, workspace_id, trace_id, event_type) ==
    \E i \in 1..Len(lg) :
        /\ lg[i].workspace_id = workspace_id
        /\ lg[i].trace_id = trace_id
        /\ lg[i].type = event_type

RECURSIVE OrderByTs(_, _)
\* "ORDER BY ts ASC" over the rows at the indexes idx: every order that is
\* ascending in ts; rows of equal ts come in an order the query does not
\* determine
OrderByTs(lg, idx) ==
    IF idx = {} THEN {<<>>}
    ELSE UNION {{<<lg[i]>> \o rest : rest \in OrderByTs(lg, idx \ {i})} :
                  i \in {j \in idx : \A k \in idx : lg[j].ts <= lg[k].ts}}

\* EventStore.get_workspace_events(workspace_id): the possible results
GetWorkspaceEvents(lg, workspace_id) ==
    OrderByTs(lg, {i \in 1..Len(lg) : lg[i].workspace_id = workspace_id})

\* the parameters query_events declares
QueryEventsParams ==
    {"workspace_id", "type", "after", "before", "limit", "offset"}

\* the upper bound query_events puts on limit
QueryLimitCap == 200

\* EventStore.query_events(workspace_id, type=, after=, limit=): the possible
\* results of "... AND ts > after ORDER BY ts ASC LIMIT limit OFFSET 0"
QueryEvents(lg, workspace_id, type, after, limit) ==
    LET lim == IF limit < QueryLimitCap THEN limit ELSE QueryLimitCap
        idx == {i \in 1..Len(lg) : /\ lg[i].workspace_id = workspace_id
                                   /\ lg[i].type = type
                                   /\ lg[i].ts > after}
    IN  {SubSeq(rows, 1, IF Len(rows) < lim THEN Len(rows) ELSE lim) :
            rows \in OrderByTs(lg, idx)}

-----------------------------------------------------------------------------
(* Memory store (store/memory_store.py)                                    *)

\* a create_entry that overwrites on conflict (DO UPDATE)
CreateEntryUpsert(m, entry) ==
    [inserted |-> TRUE,
     mem |-> {r \in m : r.source_event_id # entry.source_event_id}
                \cup {entry}]

\* MemoryStore.create_entry: ON CONFLICT (source_event_id) DO NOTHING
CreateEntry(m, entry) ==
    IF \E r \in m : r.source_event_id = entry.source_event_id
    THEN [inserted |-> FALSE, mem |-> m]
    ELSE [inserted |-> TRUE, mem |-> m \cup {entry}]

\* an update_status that writes the status column only
UpdateStatusOnly(m, entry_id, status, timestamp) ==
    LET hit == {r \in m : r.entry_id = entry_id}
    IN  [updated |-> hit # {},
         mem |-> (m \ hit) \cup {[r EXCEPT !.status = status] : r \in hit}]

\* an update_status that leaves a retracted entry as it is
UpdateStatusGuarded(m, entry_id, status, timestamp) ==
    LET hit == {r \in m : r.entry_id = entry_id /\ r.status # "retracted"}
        upd(r) == IF status = "promoted"
                  THEN [r EXCEPT !.status = status, !.promoted_at = timestamp,
                                 !.updated_at = timestamp]
                  ELSE [r EXCEPT !.status = status, !.retracted_at = timestamp,
                                 !.updated_at = timestamp]
    IN  [updated |-> hit # {},
         mem |-> (m \ hit) \cup {upd(r) : r \in hit}]

\* MemoryStore.update_status
UpdateStatus(m, entry_id, status, timestamp) ==
    LET hit == {r \in m : r.entry_id = entry_id}
        upd(r) == IF status = "promoted"
                  THEN [r EXCEPT !.status = status, !.promoted_at = timestamp,
                                 !.updated_at = timestamp]
                  ELSE [r EXCEPT !.status = status, !.retracted_at = timestamp,
                                 !.updated_at = timestamp]
    IN  [updated |-> hit # {},
         mem |-> (m \ hit) \cup {upd(r) : r \in hit}]

\* a get_entries that never filters on expires_at
GetEntriesWithExpired(m, workspace_id, bucket, status, include_expired, clock) ==
    LET effective_status == IF status # "None" THEN status ELSE "promoted"
    IN  {r \in m :
            /\ r.workspace_id = workspace_id
            /\ r.status = effective_status
            /\ (bucket # "None" => r.bucket = bucket)}

\* a get_entries that applies no status filter when none is requested
GetEntriesAnyStatus(m, workspace_id, bucket, status, include_expired, clock) ==
    {r \in m :
        /\ r.workspace_id = workspace_id
        /\ (status # "None" => r.status = status)
        /\ (bucket # "None" => r.bucket = bucket)
        /\ (~include_expired =>
                (r.expires_at = NULL \/ r.expires_at > clock))}

\* a get_entries that still returns an entry at the instant it expires
GetEntriesAtExpiry(m, workspace_id, bucket, status, include_expired, clock) ==
    LET effective_status == IF status # "None" THEN status ELSE "promoted"
    IN  {r \in m :
            /\ r.workspace_id = workspace_id
            /\ r.status = effective_status
            /\ (bucket # "None" => r.bucket = bucket)
            /\ (~include_expired =>
                    (r.expires_at = NULL \/ r.expires_at >= clock))}

\* MemoryStore.get_entries; "None" stands for an argument left out
GetEntries(m, workspace_id, bucket, status, include_expired, clock) ==
    LET effective_status == IF status # "None" THEN status ELSE "promoted"
    IN  {r \in m :
            /\ r.workspace_id = workspace_id
            /\ r.status = effective_status
            /\ (bucket # "None" => r.bucket = bucket)
            /\ (~include_expired =>
                    (r.expires_at = NULL \/ r.expires_at > clock))}

\* MemoryStore.delete_workspace_entries
DeleteWorkspaceEntries(m, workspace_id) ==
    {r \in m : r.workspace_id # workspace_id}

-----------------------------------------------------------------------------
(* Projection engine (projections/engine.py, projections/rules.py)         *)

\* the enumerations of a finite set, as sequences
Orders(S) ==
    LET n == Cardinality(S)
    IN  {f \in [1..n -> S] : \A a, b \in 1..n : a # b => f[a] # f[b]}

\* a _handle_candidate that gives every entry a time to live, whatever its
\* bucket
CandidateEntryAlwaysExpires(event) ==
    LET payload == event.payload
    IN      [entry_id |-> event.event_id,
             workspace_id |-> event.workspace_id,
             bucket |-> PayloadGet(payload, "bucket", "workspace"),
             key |-> PayloadGet(payload, "key", ""),
             value |-> PayloadGet(payload, "value", "{}"),
             status |-> "candidate",
             confidence |-> event.confidence,
             source_event_id |-> event.event_id,
             promoted_at |-> NULL,
             retracted_at |-> NULL,
             expires_at |-> event.ts + PayloadGet(payload, "ttl_hours",
                                           DEFAULT_EPHEMERAL_TTL_HOURS),
             created_at |-> event.ts,
             updated_at |-> event.ts]

\* a _handle_candidate that gives the entry an id of its own
CandidateEntryOwnId(event) ==
    LET payload == event.payload
        bucket == PayloadGet(payload, "bucket", "workspace")
    IN      [entry_id |-> event.event_id + 50,
             workspace_id |-> event.workspace_id,
             bucket |-> bucket,
             key |-> PayloadGet(payload, "key", ""),
             value |-> PayloadGet(payload, "value", "{}"),
             status |-> "candidate",
             confidence |-> event.confidence,
             source_event_id |-> event.event_id,
             promoted_at |-> NULL,
             retracted_at |-> NULL,
             expires_at |-> IF bucket = "ephemeral"
                            THEN event.ts + PayloadGet(payload, "ttl_hours",
                                               DEFAULT_EPHEMERAL_TTL_HOURS)
                            ELSE NULL,
             created_at |-> event.ts,
             updated_at |-> event.ts]

\* the MemoryEntry that _handle_candidate builds from the event
CandidateEntry(event) ==
    LET payload == event.payload
        bucket == PayloadGet(payload, "bucket", "workspace")
        expires_at ==
            IF bucket = "ephemeral"
            THEN event.ts + PayloadGet(payload, "ttl_hours",
                                       DEFAULT_EPHEMERAL_TTL_HOURS)
            ELSE NULL
    IN      [entry_id |-> event.event_id,
             workspace_id |-> event.workspace_id,
             bucket |-> bucket,
             key |-> PayloadGet(payload, "key", ""),
             value |-> PayloadGet(payload, "value", "{}"),
             status |-> "candidate",
             confidence |-> event.confidence,
             source_event_id |-> event.event_id,
             promoted_at |-> NULL,
             retracted_at |-> NULL,
             expires_at |-> expires_at,
             created_at |-> event.ts,
             updated_at |-> event.ts]

\* ProjectionEngine._handle_candidate; raised when MemoryBucket(...) or the
\* MemoryEntry validation (key of at least one character) rejects the payload
HandleCandidate(m, event) ==
    LET entry == CandidateEntry(event)
    IN  IF entry.bucket \notin MemoryBuckets \/ entry.key = ""
        THEN [raised |-> TRUE, mem |-> m]
        ELSE [raised |-> FALSE, mem |-> CreateEntry(m, entry).mem]

\* a _handle_promoted that raises when the payload has no entry_id
HandlePromotedStrict(m, event) ==
    LET entry_id == PayloadGet(event.payload, "entry_id", NULL)
    IN  IF entry_id = NULL
        THEN [raised |-> TRUE, mem |-> m]
        ELSE [raised |-> FALSE,
              mem |-> UpdateStatus(m, entry_id, "promoted", event.ts).mem]

\* ProjectionEngine._handle_promoted
HandlePromoted(m, event) ==
    LET entry_id == PayloadGet(event.payload, "entry_id", NULL)
    IN  IF entry_id = NULL
        THEN [raised |-> FALSE, mem |-> m]
        ELSE [raised |-> FALSE,
              mem |-> UpdateStatus(m, entry_id, "promoted", event.ts).mem]

\* ProjectionEngine._handle_retracted
HandleRetracted(m, event) ==
    LET entry_id == PayloadGet(event.payload, "entry_id", NULL)
    IN  IF entry_id = NULL
        THEN [raised |-> FALSE, mem |-> m]
        ELSE [raised |-> FALSE,
              mem |-> UpdateStatus(m, entry_id, "retracted", event.ts).mem]

\* the dispatch on event.type at the head of ProjectionEngine.process
Handle(m, event) ==
    IF event.type = "memory.candidate" THEN HandleCandidate(m, event)
    ELSE IF event.type = "memory.promoted" THEN HandlePromoted(m, event)
    ELSE IF event.type = "memory.retracted" THEN HandleRetracted(m, event)
    ELSE [raised |-> FALSE, mem |-> m]

\* an evaluator that forgets the confidence test
IsEligibleAnyConfidence(entry, trace_id, lg) ==
    /\ entry.status = "candidate"
    /\ \/ CountReferences(lg, entry.workspace_id, trace_id,
              entry.created_at - REFERENCE_WINDOW_DAYS * HoursPerDay)
            >= MIN_REFERENCES
       \/ HasEventTypeInTrace(lg, entry.workspace_id, trace_id,
                              "decision.recorded")

\* an evaluator that forgets the decision.recorded test
IsEligibleNoDecision(entry, trace_id, lg) ==
    /\ entry.status = "candidate"
    /\ entry.confidence >= CONFIDENCE_THRESHOLD
    /\ CountReferences(lg, entry.workspace_id, trace_id,
           entry.created_at - REFERENCE_WINDOW_DAYS * HoursPerDay)
         >= MIN_REFERENCES

\* PromotionEvaluator.is_eligible
IsEligible(entry, trace_id, lg) ==
    IF entry.status # "candidate" THEN FALSE
    ELSE IF entry.confidence < CONFIDENCE_THRESHOLD THEN FALSE
    ELSE IF CountReferences(lg, entry.workspace_id, trace_id,
                entry.created_at - REFERENCE_WINDOW_DAYS * HoursPerDay)
              >= MIN_REFERENCES THEN TRUE
    ELSE HasEventTypeInTrace(lg, entry.workspace_id, trace_id,
                             "decision.recorded")

\* an evaluator that runs both event-store queries before it looks at the
\* entry
IsEligibleReadsEager(entry, trace_id, lg) ==
    <<"count_references", "has_event_type_in_trace">>

\* the event-store calls PromotionEvaluator.is_eligible awaits, in order; the
\* evaluator holds the event store only and calls nothing else on it
IsEligibleReads(entry, trace_id, lg) ==
    IF entry.status # "candidate" THEN <<>>
    ELSE IF entry.confidence < CONFIDENCE_THRESHOLD THEN <<>>
    ELSE IF CountReferences(lg, entry.workspace_id, trace_id,
                entry.created_at - REFERENCE_WINDOW_DAYS * HoursPerDay)
              >= MIN_REFERENCES THEN <<"count_references">>
    ELSE <<"count_references", "has_event_type_in_trace">>

\* a synthetic envelope that takes ts and severity from the entry's side
\* instead of the triggering event
SyntheticOfEntry(entry, trigger_event, event_id) ==
    [event_id |-> event_id,
     schema_version |-> 1,
     ts |-> entry.created_at,
     workspace_id |-> entry.workspace_id,
     satellite_id |-> EngineSatellite,
     trace_id |-> trigger_event.trace_id,
     type |-> "memory.promoted",
     severity |-> "low",
     confidence |-> entry.confidence,
     payload |-> [entry_id |-> entry.entry_id]]

\* the envelope ProjectionEngine._auto_promote builds
Synthetic(entry, trigger_event, event_id) ==
    [event_id |-> event_id,
     schema_version |-> 1,
     ts |-> trigger_event.ts,
     workspace_id |-> entry.workspace_id,
     satellite_id |-> EngineSatellite,
     trace_id |-> trigger_event.trace_id,
     type |-> "memory.promoted",
     severity |-> trigger_event.severity,
     confidence |-> entry.confidence,
     payload |-> [entry_id |-> entry.entry_id]]

\* uuid4(): the k-th value the engine draws; clients use smaller ids
Uuid4(k) == 100 + k

\* a sweep that also evaluates the candidates that have expired
EligibleCandidatesWithExpired(m, lg, event, clock) ==
    {row \in GetEntries(m, event.workspace_id, "None", "candidate", TRUE,
                        clock) :
        IsEligible(row, event.trace_id, lg)}

\* ProjectionEngine._check_auto_promotion: the candidates the sweep finds
\* eligible for the triggering event
EligibleCandidates(m, lg, event, clock) ==
    {row \in GetEntries(m, event.workspace_id, "None", "candidate", FALSE,
                        clock) :
        IsEligible(row, event.trace_id, lg)}

\* the synthetic envelopes of one sweep, in the order the rows were returned
Synthetics(order, event, n) ==
    [k \in 1..Len(order) |-> Synthetic(order[k], event, Uuid4(n + k))]

RECURSIVE ApplyPromotions(_, _)
\* the branch of _auto_promote without a producer: apply in-process
ApplyPromotions(m, syn) ==
    IF syn = <<>> THEN m
    ELSE ApplyPromotions(HandlePromoted(m, Head(syn)).mem, Tail(syn))

\* a process that moves the cursor before it runs the handler and the sweep
ProcessCursorFirst(m, lg, event, clock, order, n, fault) ==
    LET h == Handle(m, event)
        syn == Synthetics(order, event, n)
    IN  IF fault = "handler" \/ h.raised
        THEN [raised |-> TRUE, mem |-> m, sent |-> <<>>,
              cursor |-> TRUE]
        ELSE IF fault = "sweep"
        THEN [raised |-> TRUE, mem |-> h.mem, sent |-> <<>>,
              cursor |-> TRUE]
        ELSE [raised |-> fault = "cursor",
              mem |-> IF HasProducer THEN h.mem
                      ELSE ApplyPromotions(h.mem, syn),
              sent |-> IF HasProducer THEN syn ELSE <<>>,
              cursor |-> fault # "cursor"]

\* ProjectionEngine.process(event) with the store in state (m, lg).
\* order: the eligible rows as get_entries returned them; n: uuids drawn so
\* far; fault: where a transient error strikes ("none" for no error).
Process(m, lg, event, clock, order, n, fault) ==
    LET h == Handle(m, event)
        syn == Synthetics(order, event, n)
    IN  IF fault = "handler" \/ h.raised
        THEN [raised |-> TRUE, mem |-> m, sent |-> <<>>,
              cursor |-> FALSE]
        ELSE IF fault = "sweep"
        THEN [raised |-> TRUE, mem |-> h.mem, sent |-> <<>>,
              cursor |-> FALSE]
        ELSE [raised |-> fault = "cursor",
              mem |-> IF HasProducer THEN h.mem
                      ELSE ApplyPromotions(h.mem, syn),
              sent |-> IF HasProducer THEN syn ELSE <<>>,
              cursor |-> fault # "cursor"]

RECURSIVE ReplayApply(_, _)
\* the loop of ProjectionEngine.replay over the rows read from the log; an
\* exception of a handler ends the loop and leaves the entries built so far
ReplayApply(m, events) ==
    IF events = <<>> THEN m
    ELSE LET row == Head(events)
             event == [event_id |-> row.event_id,
                       schema_version |-> 1,
                       ts |-> row.ts,
                       workspace_id |-> row.workspace_id,
                       satellite_id |-> row.satellite_id,
                       trace_id |-> row.trace_id,
                       type |-> row.type,
                       severity |-> row.severity,
                       confidence |-> row.confidence,
                       payload |-> row.payload_json]
             h == IF event.type \in MEMORY_EVENT_TYPES
                  THEN Handle(m, event)
                  ELSE [raised |-> FALSE, mem |-> m]
         IN  IF h.raised THEN m ELSE ReplayApply(h.mem, Tail(events))

-----------------------------------------------------------------------------
(* Context pack (api/context_packs.py, api/console.py)                     *)

\* map_console_memory_status
MapConsoleMemoryStatus(status, expires_at, clock) ==
    IF status = "promoted"
    THEN IF expires_at = NULL THEN "active"
         ELSE IF expires_at <= clock THEN "expired" ELSE "active"
    ELSE IF status = "retracted" THEN "archived"
    ELSE status

\* _to_context_memory
ToContextMemory(entry, clock) ==
    [id |-> entry.entry_id,
     workspace_id |-> entry.workspace_id,
     bucket |-> entry.bucket,
     title |-> entry.key,
     status |-> MapConsoleMemoryStatus(entry.status, entry.expires_at, clock),
     confidence |-> entry.confidence,
     source_event_id |-> entry.source_event_id]

\* str.lower() on the keys in use
Lower(k) == IF k = "K" THEN "k" ELSE IF k = "L" THEN "l" ELSE k

\* the first `limit` of the entries sorted by updated_at, newest first;
\* entries of equal updated_at keep the order of the rows, which the query
\* does not determine: the possible selections
NewestFirst(entries, limit) ==
    {sel \in SUBSET entries :
        /\ Cardinality(sel) =
              (IF Cardinality(entries) < limit THEN Cardinality(entries)
               ELSE limit)
        /\ \A a \in sel : \A b \in entries \ sel :
              a.updated_at >= b.updated_at}

\* _rank_memory; a query is "None" or one keyword, which matches an entry
\* when the lower-cased key contains it (the stored values hold no letters)
RankMemory(entries, query, limit) ==
    IF entries = {} THEN {{}}
    ELSE IF query = "None" THEN NewestFirst(entries, limit)
    ELSE NewestFirst({e \in entries : Lower(e.key) = query}, limit)

\* get_context_pack_v0: the possible memory sections of the pack
ContextPackMemory(m, workspace_id, q, memory_limit, clock) ==
    {{ToContextMemory(e, clock) : e \in sel} :
        sel \in RankMemory(GetEntries(m, workspace_id, "None", "promoted",
                                      FALSE, clock),
                           q, memory_limit)}

\* the days the event sections look back when since is left out
SINCE_DEFAULT_DAYS == 7

\* get_context_pack_v0, the event sections: the decisions and tasks queries
\* and the outcome of the risks query, which passes the keyword severity
ContextPackEvents(lg, workspace_id, since, clock, decision_limit, task_limit) ==
    LET since_dt == IF since # NULL THEN since
                    ELSE clock - SINCE_DEFAULT_DAYS * HoursPerDay
    IN  {[decisions |-> d, tasks |-> t,
          raised |-> "severity" \notin QueryEventsParams] :
            d \in QueryEvents(lg, workspace_id, "decision.recorded", since_dt,
                              decision_limit),
            t \in QueryEvents(lg, workspace_id, "task.created", since_dt,
                              task_limit)}

-----------------------------------------------------------------------------
(* Request bodies of the clients                                           *)

BodyIn(workspace_id, event_id, ts, trace_id, type, confidence, payload) ==
    [event_id |-> event_id,
     schema_version |-> 1,
     ts |-> <<ts, 0>>,
     workspace_id |-> workspace_id,
     satellite_id |-> "sat-test",
     trace_id |-> trace_id,
     type |-> type,
     severity |-> "low",
     confidence |-> confidence,
     payload |-> payload]

Body(event_id, ts, trace_id, type, confidence, payload) ==
    BodyIn("ws-A", event_id, ts, trace_id, type, confidence, payload)

\* a decision of high severity, a candidate of its trace at the confidence
\* threshold, and a task of another trace whose ts is written with a UTC
\* offset of two hours
ScnPromotion ==
    {[Body(1, 200, "T1", "decision.recorded", 90, [title |-> "d"])
        EXCEPT !.severity = "high"],
     Body(2, 400, "T1", "memory.candidate", 75, [key |-> "K"]),
     [Body(4, 400, "T2", "task.created", 90, [title |-> "t"])
        EXCEPT !.ts = <<402, 2>>]}

\* a decision and two candidates of its trace, one at the confidence
\* threshold and one just below
ScnThreshold ==
    {Body(1, 200, "T1", "decision.recorded", 90, [title |-> "d"]),
     Body(2, 400, "T1", "memory.candidate", 75, [key |-> "K"]),
     Body(3, 400, "T1", "memory.candidate", 74, [key |-> "L"])}

\* a candidate, a promotion carrying the candidate's ts and a later
\* retraction, all of different traces
ScnStatus ==
    {Body(2, 400, "T1", "memory.candidate", 74, [key |-> "K"]),
     Body(5, 400, "T2", "memory.promoted", 90, [entry_id |-> 2]),
     Body(6, 600, "T3", "memory.retracted", 90, [entry_id |-> 2])}

\* two different envelopes under one event_id, one inside and one outside
\* the reference window of a candidate of their trace
ScnReferences ==
    {Body(1, 400, "T1", "task.created", 90, [title |-> "a"]),
     Body(1, 200, "T1", "task.updated", 50, [title |-> "b"]),
     Body(2, 400, "T1", "memory.candidate", 80, [key |-> "K"])}

\* two ephemeral candidates of one trace, one with the default time to live
\* and one of high confidence that has expired when the run starts, and a
\* promotion of the first
ScnEphemeral ==
    {Body(2, 490, "T1", "memory.candidate", 74,
          [key |-> "K", bucket |-> "ephemeral"]),
     Body(3, 400, "T1", "memory.candidate", 80,
          [key |-> "L", bucket |-> "ephemeral", ttl_hours |-> 48]),
     Body(5, 495, "T2", "memory.promoted", 90, [entry_id |-> 2])}

\* a candidate in each of two workspaces and a promotion of the first
ScnWorkspaces ==
    {BodyIn("ws-A", 2, 400, "T1", "memory.candidate", 74, [key |-> "K"]),
     BodyIn("ws-B", 3, 400, "T1", "memory.candidate", 74, [key |-> "K"]),
     BodyIn("ws-A", 5, 450, "T2", "memory.promoted", 90, [entry_id |-> 2])}

\* a candidate, and a promotion and a retraction whose payloads have no
\* entry_id
ScnMissingEntryId ==
    {Body(2, 400, "T1", "memory.candidate", 74, [key |-> "K"]),
     Body(7, 450, "T2", "memory.promoted", 90, [note |-> "n"]),
     Body(8, 460, "T3", "memory.retracted", 90, EmptyPayload)}

\* a candidate of one workspace and its retraction, and a promotion posted
\* to another workspace that names the same entry
ScnCrossWorkspace ==
    {BodyIn("ws-A", 2, 400, "T1", "memory.candidate", 74, [key |-> "K"]),
     BodyIn("ws-B", 5, 450, "T2", "memory.promoted", 90, [entry_id |-> 2]),
     BodyIn("ws-A", 6, 600, "T3", "memory.retracted", 90, [entry_id |-> 2])}

\* candidates whose payloads differ in what they leave out: one gives
\* bucket, key and value, one gives no key, one gives an empty key
ScnCandidatePayloads ==
    {Body(2, 400, "T1", "memory.candidate", 74,
          [bucket |-> "global", key |-> "K", value |-> "v"]),
     Body(3, 410, "T1", "memory.candidate", 74, [value |-> "v"]),
     Body(9, 420, "T2", "memory.candidate", 74, [key |-> ""])}

\* three tasks and no memory event
ScnTasks ==
    {Body(1, 400, "T1", "task.created", 90, [title |-> "a"]),
     Body(4, 450, "T1", "task.created", 90, [title |-> "b"]),
     Body(6, 300, "T2", "task.created", 90, [title |-> "c"])}

Scenarios ==
    {ScnPromotion, ScnThreshold, ScnStatus, ScnReferences, ScnEphemeral,
     ScnWorkspaces, ScnMissingEntryId, ScnCrossWorkspace,
     ScnCandidatePayloads, ScnTasks}

\* bytes on the topic that fail envelope validation
Garbage ==
    [event_id |-> 0, schema_version |-> 2, ts |-> <<0, 0>>,
     workspace_id |-> "", satellite_id |-> "", trace_id |-> "",
     type |-> "", severity |-> "", confidence |-> 0,
     payload |-> EmptyPayload]

-----------------------------------------------------------------------------
(* State machine                                                           *)

NoIteration ==
    [offset |-> -1, malformed |-> FALSE, event_id |-> 0,
     persist |-> "none", project |-> "none", commit |-> FALSE,
     created |-> "none", emitted |-> {}]

NoResponse == [status |-> "none", body |-> EmptyPayload]

\* no replay request is in progress; runs counts the requests so far
NoReplay(runs) ==
    [phase |-> "idle", w |-> "", events |-> <<>>, runs |-> runs]

InitState ==
    /\ topic = <<>>
    /\ position = 0
    /\ committed = 0
    /\ log = <<>>
    /\ mem = {}
    /\ cursor = <<>>
    /\ now = 500
    /\ uuids = 0
    /\ resp = NoResponse
    /\ last = NoIteration
    /\ done = {}
    /\ swept = {}
    /\ clean = {}
    /\ restarts = 0
    /\ faults = 0
    /\ rp = NoReplay(0)

Init == InitState /\ inputs \in Scenarios

\* the workspaces of this run
Workspaces == {b.workspace_id : b \in inputs}

\* messages on the topic that the projection engine did not publish
Posted == {i \in 1..Len(topic) : topic[i].satellite_id # EngineSatellite}

\* api/events.py post_event, internal envelope: validate, publish, accept.
\* A body that fails validation is answered 400 and changes nothing.
PostEvent ==
    \E b \in inputs :
        /\ IsValidBody(b)
        /\ Cardinality(Posted) < MaxPosts
        /\ topic' = Append(topic, ToKafkaValue(ModelValidate(b)))
        /\ resp' = [status |-> "accepted", body |-> b]
        /\ UNCHANGED <<position, committed, log, mem, cursor, now, uuids,
                       inputs, last, done, swept, clean, restarts, faults,
                       rp>>

\* the fields of EventEnvelope without a default
EnvelopeFields ==
    {"event_id", "schema_version", "ts", "workspace_id", "satellite_id",
     "trace_id", "type", "severity", "confidence"}

\* EventEnvelope.model_validate(body) does not raise
IsValidEnvelope(b) == EnvelopeFields \subseteq DOMAIN b /\ IsValidBody(b)

\* request bodies with an event_id that fail the envelope validation
InvalidBodies ==
    {Body(9, 400, "T1", "task.created", 150, [title |-> "x"]),
     [Body(9, 400, "T1", "task.created", 90, [title |-> "x"])
        EXCEPT !.schema_version = 2],
     [Body(9, 400, "T1", "task.created", 90, [title |-> "x"])
        EXCEPT !.type = "task.deleted"],
     [event_id |-> 9, type |-> "task.created", workspace_id |-> "ws-A"]}

\* post_event, internal envelope that fails validation: 400, nothing sent
PostInvalid ==
    \E b \in InvalidBodies :
        /\ "event_id" \in DOMAIN b
        /\ ~IsValidEnvelope(b)
        /\ resp' = [status |-> "400", body |-> b]
        /\ UNCHANGED <<topic, position, committed, log, mem, cursor, now,
                       uuids, inputs, last, done, swept, clean, restarts,
                       faults, rp>>

\* post_event, internal envelope, when send_and_wait raises: the exception
\* leaves the handler (a server error); the broker may or may not have
\* written the message whose acknowledgement did not arrive
PostPublishError ==
    \E b \in inputs :
        /\ IsValidEnvelope(b)
        /\ Cardinality(Posted) < MaxPosts
        /\ faults < MaxFaults
        /\ faults' = faults + 1
        /\ topic' \in {topic, Append(topic, ToKafkaValue(ModelValidate(b)))}
        /\ resp' = [status |-> "500", body |-> b]
        /\ UNCHANGED <<position, committed, log, mem, cursor, now, uuids,
                       inputs, last, done, swept, clean, restarts, rp>>

\* _severity_from_console; "invalid" stands for the ValueError
SeverityFromConsole(s) ==
    IF s = "" THEN "low"
    ELSE IF s \in {"info", "low"} THEN "low"
    ELSE IF s \in {"warning", "medium"} THEN "medium"
    ELSE IF s \in {"error", "critical", "high"} THEN "high"
    ELSE "invalid"

\* post_event on a body without event_id (console schema), up to the publish:
\* the checks answered with 400, then the EventEnvelope built from the body,
\* whose validation error no except clause catches (a server error).  The
\* console bodies of the model carry trace_id and leave id and timestamp out.
ConsoleRequest(b, clock, id) ==
    LET metadata == PayloadGet(b, "metadata", EmptyPayload)
        severity == SeverityFromConsole(PayloadGet(b, "severity", ""))
        internal ==
            [event_id |-> id,
             schema_version |-> 1,
             ts |-> clock,
             workspace_id |-> b.workspace_id,
             satellite_id |-> PayloadGet(metadata, "satellite_id", "console"),
             trace_id |-> b.trace_id,
             type |-> b.type,
             severity |-> severity,
             confidence |-> PayloadGet(metadata, "confidence", 0),
             payload |-> PayloadGet(b, "payload", EmptyPayload)]
    IN  IF "type" \notin DOMAIN b
        THEN [status |-> "400", event |-> b]
        ELSE IF PayloadGet(b, "workspace_id", "") = ""
        THEN [status |-> "400", event |-> b]
        ELSE IF b.type \notin EventTypes
        THEN [status |-> "400", event |-> b]
        ELSE IF severity = "invalid"
        THEN [status |-> "400", event |-> b]
        ELSE IF ~IsValidBody(internal)
        THEN [status |-> "500", event |-> b]
        ELSE [status |-> "ok", event |-> internal]

\* request bodies in the console schema
ConsoleBodies ==
    {[type |-> "task.created", workspace_id |-> "ws-A", trace_id |-> "T1",
      payload |-> [title |-> "hi"], metadata |-> [confidence |-> 90]],
     [type |-> "task.created", workspace_id |-> "ws-A", trace_id |-> "T1",
      payload |-> [title |-> "hi"], metadata |-> [confidence |-> 500]],
     [type |-> "task.created", workspace_id |-> "ws-A", trace_id |-> "T1",
      severity |-> "fatal"],
     [type |-> "task.deleted", workspace_id |-> "ws-A", trace_id |-> "T1"],
     [type |-> "task.created", trace_id |-> "T1"],
     [payload |-> [title |-> "hi"]]}

\* uuid4() in post_event: a value no event carries yet
Uuid4Api == 200 + Len(topic)

\* post_event on a console body
PostConsole ==
    \E b \in ConsoleBodies :
        LET c == ConsoleRequest(b, now, Uuid4Api)
        IN  /\ "event_id" \notin DOMAIN b
            /\ IF c.status = "ok"
               THEN /\ Cardinality(Posted) < MaxPosts
                    /\ topic' = Append(topic, ToKafkaValue(c.event))
                    /\ resp' = [status |-> "accepted", body |-> b]
               ELSE /\ topic' = topic
                    /\ resp' = [status |-> c.status, body |-> b]
            /\ UNCHANGED <<position, committed, log, mem, cursor, now, uuids,
                           inputs, last, done, swept, clean, restarts, faults,
                           rp>>

\* another producer of the topic writes bytes that are no envelope
ForeignPublish ==
    /\ Cardinality(Posted) < MaxPosts
    /\ \A i \in 1..Len(topic) : IsValidBody(topic[i])
    /\ topic' = Append(topic, Garbage)
    /\ UNCHANGED <<position, committed, log, mem, cursor, now, uuids,
                   inputs, resp, last, done, swept, clean, restarts, faults,
                   rp>>

\* an iteration that skips a malformed message without committing
HandleMalformedNoCommit ==
    /\ position < Len(topic)
    /\ FromKafkaValue(topic[position + 1]).raised
    /\ position' = position + 1
    /\ last' = [NoIteration EXCEPT !.offset = position, !.malformed = TRUE]
    /\ clean' = {}
    /\ UNCHANGED <<topic, committed, log, mem, cursor, now, uuids, inputs, resp,
                   done, swept, restarts, faults, rp>>

\* EventConsumer._consume_loop, one iteration on a message that fails to
\* decode: commit and continue.  commit() without arguments commits the
\* consumer's position, the offset after the message just fetched.
HandleMalformed ==
    /\ position < Len(topic)
    /\ FromKafkaValue(topic[position + 1]).raised
    /\ position' = position + 1
    /\ committed' = position + 1
    /\ last' = [NoIteration EXCEPT !.offset = position, !.malformed = TRUE,
                                   !.commit = TRUE]
    /\ clean' = {}
    /\ UNCHANGED <<topic, log, mem, cursor, now, uuids, inputs, resp, done, swept,
                   restarts, faults, rp>>

\* an iteration that commits although persist raised
HandlePersistErrorCommit ==
    /\ position < Len(topic)
    /\ ~FromKafkaValue(topic[position + 1]).raised
    /\ faults < MaxFaults
    /\ faults' = faults + 1
    /\ position' = position + 1
    /\ committed' = position + 1
    /\ last' = [NoIteration EXCEPT
                  !.offset = position,
                  !.event_id = FromKafkaValue(topic[position + 1]).event.event_id,
                  !.persist = "error", !.commit = TRUE]
    /\ clean' = {}
    /\ UNCHANGED <<topic, log, mem, cursor, now, uuids, inputs, resp, done, swept,
                   restarts, rp>>

\* one iteration whose persist raises: log and continue, without a commit;
\* the iterator goes on to the next message
HandlePersistError ==
    /\ position < Len(topic)
    /\ ~FromKafkaValue(topic[position + 1]).raised
    /\ faults < MaxFaults
    /\ faults' = faults + 1
    /\ position' = position + 1
    /\ last' = [NoIteration EXCEPT
                  !.offset = position,
                  !.event_id = FromKafkaValue(topic[position + 1]).event.event_id,
                  !.persist = "error"]
    /\ clean' = {}
    /\ UNCHANGED <<topic, committed, log, mem, cursor, now, uuids, inputs, resp,
                   done, swept, restarts, rp>>

Faults == {"none", "handler", "sweep", "cursor"}

\* a consumer loop that projects only what persist inserted
ProjectsIfInserted(inserted) == inserted

\* whether the consumer loop calls process after persist returned: always,
\* the result of persist only selects the log line and the metric
Projects(inserted) == TRUE

\* one iteration whose persist returns: project, then commit unless the
\* projection raised
HandleMessage ==
    /\ position < Len(topic)
    /\ ~FromKafkaValue(topic[position + 1]).raised
    /\ LET event == FromKafkaValue(topic[position + 1]).event
           p == Persist(log, event)
           h == Handle(mem, event)
       IN  \E fault \in Faults :
           \E order \in Orders(EligibleCandidates(h.mem, p.log, event, now)) :
             LET invoked == Projects(p.inserted)
                 r == IF invoked
                      THEN Process(mem, p.log, event, now, order, uuids, fault)
                      ELSE [raised |-> FALSE, mem |-> mem, sent |-> <<>>,
                            cursor |-> FALSE]
                 sweepDone == /\ invoked
                              /\ ~h.raised
                              /\ fault \notin {"handler", "sweep"}
             IN  /\ fault # "none" => (invoked /\ faults < MaxFaults)
                 /\ sweepDone => uuids + Len(order) <= MaxSynthetic
                 /\ faults' = IF fault = "none" THEN faults ELSE faults + 1
                 /\ log' = p.log
                 /\ mem' = r.mem
                 /\ topic' = topic \o [k \in 1..Len(r.sent) |->
                                          ToKafkaValue(r.sent[k])]
                 /\ uuids' = IF sweepDone THEN uuids + Len(order) ELSE uuids
                 /\ cursor' = IF r.cursor
                              THEN <<[last_event_id |-> event.event_id,
                                      last_event_ts |-> event.ts]>>
                              ELSE cursor
                 /\ position' = position + 1
                 /\ committed' = IF r.raised THEN committed ELSE position + 1
                 /\ done' = IF r.raised THEN done ELSE done \cup {position}
                 /\ swept' =
                      IF sweepDone
                      THEN swept \cup
                           {row.entry_id : row \in
                              {x \in h.mem :
                                 /\ x.workspace_id = event.workspace_id
                                 /\ IsEligible(x, event.trace_id, p.log)}}
                      ELSE swept
                 /\ last' = [offset |-> position, malformed |-> FALSE,
                             event_id |-> event.event_id,
                             persist |-> IF p.inserted THEN "inserted"
                                         ELSE "duplicate",
                             project |-> IF ~invoked THEN "none"
                                         ELSE IF r.raised THEN "error"
                                         ELSE "ok",
                             commit |-> ~r.raised,
                             created |->
                                IF \/ event.type # "memory.candidate"
                                   \/ ~invoked
                                   \/ h.raised \/ fault = "handler"
                                THEN "none"
                                ELSE IF CreateEntry(mem, CandidateEntry(event)).inserted
                                THEN "inserted" ELSE "duplicate",
                             emitted |-> {r.sent[k].payload.entry_id :
                                            k \in 1..Len(r.sent)}]
                 /\ clean' = {}
                 /\ UNCHANGED <<now, inputs, resp, restarts, rp>>

\* the worker is stopped and started again (or its partition is
\* reassigned): fetching resumes at the committed offset
Restart ==
    /\ restarts < MaxRestarts
    /\ position > committed
    /\ restarts' = restarts + 1
    /\ position' = committed
    /\ UNCHANGED <<topic, committed, log, mem, cursor, now, uuids, inputs, resp,
                   last, done, swept, clean, faults, rp>>

\* the awaits of one iteration at which a cancellation can arrive
Cuts == {"persist", "handler", "sweep", "cursor", "commit"}

\* EventConsumer.stop() while the loop handles the message at the fetch
\* position: task.cancel() raises CancelledError at the await the handler is
\* suspended in (no except clause of the loop catches it), so the awaits
\* before the cut have taken effect and the rest of the iteration, the commit
\* included, does not run; the next start resumes at the committed offset
StopInFlight ==
    /\ restarts < MaxRestarts
    /\ position < Len(topic)
    /\ ~FromKafkaValue(topic[position + 1]).raised
    /\ LET event == FromKafkaValue(topic[position + 1]).event
           p == Persist(log, event)
           h == Handle(mem, event)
       IN  \E cut \in Cuts :
           \E order \in Orders(EligibleCandidates(h.mem, p.log, event, now)) :
             LET r == IF cut = "persist"
                      THEN [raised |-> TRUE, mem |-> mem, sent |-> <<>>,
                            cursor |-> FALSE]
                      ELSE Process(mem, p.log, event, now, order, uuids,
                                   IF cut = "commit" THEN "none" ELSE cut)
                 sweepDone == cut \in {"cursor", "commit"}
             IN  /\ cut \notin {"persist", "handler"} => ~h.raised
                 /\ sweepDone => uuids + Len(order) <= MaxSynthetic
                 /\ log' = IF cut = "persist" THEN log ELSE p.log
                 /\ mem' = r.mem
                 /\ topic' = topic \o [k \in 1..Len(r.sent) |->
                                          ToKafkaValue(r.sent[k])]
                 /\ uuids' = IF sweepDone THEN uuids + Len(order) ELSE uuids
                 /\ cursor' = IF r.cursor
                              THEN <<[last_event_id |-> event.event_id,
                                      last_event_ts |-> event.ts]>>
                              ELSE cursor
                 /\ done' = IF cut = "commit" THEN done \cup {position}
                            ELSE done
                 /\ swept' =
                      IF sweepDone
                      THEN swept \cup
                           {row.entry_id : row \in
                              {x \in h.mem :
                                 /\ x.workspace_id = event.workspace_id
                                 /\ IsEligible(x, event.trace_id, p.log)}}
                      ELSE swept
                 /\ last' = [offset |-> position, malformed |-> FALSE,
                             event_id |-> event.event_id,
                             persist |-> IF cut = "persist" THEN "cancelled"
                                         ELSE IF p.inserted THEN "inserted"
                                         ELSE "duplicate",
                             project |-> IF cut = "persist" THEN "none"
                                         ELSE IF cut = "commit" THEN "ok"
                                         ELSE "cancelled",
                             commit |-> FALSE,
                             created |->
                                IF \/ event.type # "memory.candidate"
                                   \/ cut \in {"persist", "handler"}
                                THEN "none"
                                ELSE IF CreateEntry(mem, CandidateEntry(event)).inserted
                                THEN "inserted" ELSE "duplicate",
                             emitted |-> {r.sent[k].payload.entry_id :
                                            k \in 1..Len(r.sent)}]
                 /\ position' = committed
                 /\ restarts' = restarts + 1
                 /\ clean' = {}
                 /\ UNCHANGED <<committed, now, inputs, resp, faults, rp>>

\* a replay that, like process, runs the sweep for the last row it applied
\* and moves the cursor to it
ReplayWithSweep(w) ==
    \E events \in GetWorkspaceEvents(log, w) :
        LET m == ReplayApply(DeleteWorkspaceEntries(mem, w), events)
            row == events[Len(events)]
            event == [row EXCEPT !.workspace_id = w]
        IN  /\ events # <<>>
            /\ \E order \in Orders(EligibleCandidates(m, log, event, now)) :
                  /\ topic' = topic \o [k \in 1..Len(order) |->
                                  ToKafkaValue(Synthetic(order[k], event,
                                                         Uuid4(uuids + k)))]
                  /\ uuids' = uuids + Len(order)
            /\ mem' = m
            /\ cursor' = <<[last_event_id |-> event.event_id,
                            last_event_ts |-> event.ts]>>
            /\ clean' = clean \cup {w}
            /\ UNCHANGED <<position, committed, log, now, inputs, resp, last,
                           done, swept, restarts, faults, rp>>

\* POST /replay/{workspace_id}: ProjectionEngine.replay
Replay(w) ==
    \E events \in GetWorkspaceEvents(log, w) :
        /\ mem' = ReplayApply(DeleteWorkspaceEntries(mem, w), events)
        /\ clean' = clean \cup {w}
        /\ UNCHANGED <<topic, position, committed, log, cursor, now, uuids,
                       inputs, resp, last, done, swept, restarts, faults,
                       rp>>

\* the envelope replay rebuilds from a row of the log
RowEnvelope(row) ==
    [event_id |-> row.event_id,
     schema_version |-> 1,
     ts |-> row.ts,
     workspace_id |-> row.workspace_id,
     satellite_id |-> row.satellite_id,
     trace_id |-> row.trace_id,
     type |-> row.type,
     severity |-> row.severity,
     confidence |-> row.confidence,
     payload |-> row.payload_json]

\* replay, first statement: delete_workspace_entries(workspace_id)
ReplayDelete(w) ==
    /\ rp.phase = "idle"
    /\ rp.runs < MaxReplays
    /\ mem' = DeleteWorkspaceEntries(mem, w)
    /\ rp' = [phase |-> "deleted", w |-> w, events |-> <<>>,
              runs |-> rp.runs + 1]
    /\ UNCHANGED <<topic, position, committed, log, cursor, now, uuids,
                   inputs, resp, last, done, swept, clean, restarts, faults>>

\* replay, second statement: get_workspace_events(workspace_id); with no
\* rows the loop is empty and replay returns
ReplayRead ==
    /\ rp.phase = "deleted"
    /\ \E events \in GetWorkspaceEvents(log, rp.w) :
          rp' = IF events = <<>> THEN NoReplay(rp.runs)
                ELSE [rp EXCEPT !.phase = "applying", !.events = events]
    /\ UNCHANGED <<topic, position, committed, log, mem, cursor, now, uuids,
                   inputs, resp, last, done, swept, clean, restarts, faults>>

\* replay, one turn of the loop: the handler of the next row read; replay
\* returns after the last row and ends when a handler raises
ReplayStep ==
    /\ rp.phase = "applying"
    /\ LET event == RowEnvelope(Head(rp.events))
           h == IF event.type \in MEMORY_EVENT_TYPES
                THEN Handle(mem, event)
                ELSE [raised |-> FALSE, mem |-> mem]
       IN  /\ mem' = IF h.raised THEN mem ELSE h.mem
           /\ rp' = IF h.raised \/ Tail(rp.events) = <<>>
                    THEN NoReplay(rp.runs)
                    ELSE [rp EXCEPT !.events = Tail(rp.events)]
    /\ UNCHANGED <<topic, position, committed, log, cursor, now, uuids,
                   inputs, resp, last, done, swept, clean, restarts, faults>>

\* time passes until an entry's expires_at is reached; NOW() is read only to
\* compare it with expires_at, so other clock values show nothing new
Tick ==
    /\ \E r \in mem : r.expires_at > now /\ now' = r.expires_at
    /\ UNCHANGED <<topic, position, committed, log, mem, cursor, uuids,
                   inputs, resp, last, done, swept, clean, restarts, faults,
                   rp>>

\* the service: ingest, projection worker and the replay endpoint
Next ==
    \/ PostEvent
    \/ ForeignPublish
    \/ HandleMalformed
    \/ HandlePersistError
    \/ HandleMessage
    \/ Restart
    \/ StopInFlight
    \/ Tick
    \/ \E w \in Workspaces : Replay(w)

Spec == Init /\ [][Next]_vars

\* ingest and projection worker while nobody calls the replay endpoint and
\* the service is stopped only between two messages
NextWorker ==
    \/ PostEvent
    \/ ForeignPublish
    \/ HandleMalformed
    \/ HandlePersistError
    \/ HandleMessage
    \/ Restart
    \/ Tick

SpecWorker == Init /\ [][NextWorker]_vars

\* ingest, projection worker and the replay endpoint of a service that is
\* stopped only between two messages
NextReplay ==
    \/ NextWorker
    \/ \E w \in Workspaces : Replay(w)

SpecReplay == Init /\ [][NextReplay]_vars

\* ingest and projection worker while a replay request runs beside them, one
\* awaited statement at a time
NextConcurrent ==
    \/ NextWorker
    \/ \E w \in Workspaces : ReplayDelete(w)
    \/ ReplayRead
    \/ ReplayStep

SpecConcurrent == Init /\ [][NextConcurrent]_vars

\* ingest and projection worker of a service that may be stopped while a
\* message is being handled
NextShutdown ==
    \/ NextWorker
    \/ StopInFlight

SpecShutdown == Init /\ [][NextShutdown]_vars

\* the ingest endpoint alone, with every kind of request and a publish that
\* may fail
NextIngest ==
    \/ PostEvent
    \/ PostInvalid
    \/ PostConsole
    \/ PostPublishError

SpecIngest == Init /\ [][NextIngest]_vars

-----------------------------------------------------------------------------
(* Properties                                                              *)

\* offsets of the topic that hold a message that decodes
ValidOffsets == {o \in 0..(Len(topic) - 1) : ~FromKafkaValue(topic[o + 1]).raised}

\* a step of the consumer loop: exactly these advance the fetch position
WorkerStep == position' = position + 1

\* everything published has been fetched, processed without an error and
\* committed
Quiescent ==
    /\ position = Len(topic)
    /\ committed = Len(topic)
    /\ ValidOffsets \subseteq done

StatusOf(m) == {<<r.entry_id, r.status>> : r \in m}

\* the log rows of type ty whose payload names entry x
Terminal(x) ==
    {i \in 1..Len(log) :
        /\ log[i].type \in {"memory.promoted", "memory.retracted"}
        /\ PayloadGet(log[i].payload_json, "entry_id", NULL) = x}

\* C1: the log holds one row per event_id; a persist returns inserted iff the
\* event_id was not in the log, a duplicate leaves the log as it was, and no
\* step of the service ever changes or removes a stored row.
C1_PersistIdempotent ==
    /\ [](\A i, j \in 1..Len(log) :
              log[i].event_id = log[j].event_id => i = j)
    /\ [][/\ Len(log') >= Len(log)
          /\ \A i \in 1..Len(log) : log'[i] = log[i]
          /\ (WorkerStep /\ last'.persist \in {"inserted", "duplicate"}) =>
                /\ (last'.persist = "inserted") <=>
                       (last'.event_id \notin LogIds(log))
                /\ last'.event_id \in LogIds(log')
                /\ (last'.persist = "duplicate") => log' = log
                /\ (last'.persist = "inserted") => Len(log') = Len(log) + 1
         ]_vars

\* C1 witness: a second envelope with a stored event_id but other content was
\* persisted as a duplicate and the stored row is still the first one
C1_Witness ==
    /\ last.persist = "duplicate"
    /\ \E i \in 1..Len(log) :
          /\ log[i].event_id = last.event_id
          /\ log[i] # EventRow(FromKafkaValue(topic[last.offset + 1]).event)

\* C2: every offset below the committed offset holds a malformed message or a
\* message whose persist and projection both completed.
C2_CommitOnlyAfterSuccess ==
    \A o \in 0..(committed - 1) :
        FromKafkaValue(topic[o + 1]).raised \/ o \in done

\* C3: every accepted envelope is eventually inserted into the log.  Once the
\* committed offset covers the whole topic no message is delivered again, so
\* by then every accepted envelope must be in the log.
C3_AcceptedIsInserted ==
    (position = Len(topic) /\ committed = Len(topic)) =>
        \A o \in ValidOffsets :
            FromKafkaValue(topic[o + 1]).event.event_id \in LogIds(log)

\* C4: once every message is processed, each entry's status is the one of the
\* latest-by-ts memory.promoted / memory.retracted event referencing it
\* (candidate when there is none), whatever the order of delivery.
C4_LatestByTsWins ==
    Quiescent =>
        \A r \in mem :
            IF Terminal(r.entry_id) = {}
            THEN r.status = "candidate"
            ELSE \E i \in Terminal(r.entry_id) :
                    /\ \A j \in Terminal(r.entry_id) : log[j].ts <= log[i].ts
                    /\ r.status = (IF log[i].type = "memory.promoted"
                                   THEN "promoted" ELSE "retracted")

\* C5: when every message so far was processed without an error, processing
\* again a message that was processed at an earlier offset changes neither
\* the log nor the status of any entry.
C5_RedeliveryIsNoOp ==
    [][(/\ WorkerStep
        /\ last'.project = "ok"
        /\ \A o \in ValidOffsets : o < position => o \in done
        /\ \E o \in done : topic[o + 1] = topic[position + 1])
       => (log' = log /\ StatusOf(mem') = StatusOf(mem))]_vars

\* C6: a replay of a workspace whose memory is as a replay left it, with no
\* worker iteration in between, leaves the entries as they are.
C6_ReplayTwiceIsOnce ==
    [][\A w \in Workspaces : (Replay(w) /\ w \in clean) => mem' = mem]_vars

\* C7: when the worker is quiescent, replay rebuilds the entries and statuses
\* the worker has materialised (for some order of the rows of equal ts).
C7_ReplayAgreesWithLive ==
    Quiescent =>
        \A w \in Workspaces :
            \E events \in GetWorkspaceEvents(log, w) :
                StatusOf(ReplayApply(DeleteWorkspaceEntries(mem, w), events))
                    = StatusOf(mem)

\* C8: the iteration that emits a synthetic promotion for an entry leaves the
\* entry a candidate and puts the envelope on the topic; an iteration of the
\* worker turns an entry promoted only when it handles a memory.promoted
\* message naming that entry.
C8_SyntheticOnlyPublished ==
    [][WorkerStep =>
        /\ \A x \in last'.emitted :
              /\ \A r \in mem : r.entry_id = x => r.status = "candidate"
              /\ \E r \in mem' : r.entry_id = x /\ r.status = "candidate"
              /\ \E k \in (Len(topic) + 1)..Len(topic') :
                    /\ topic'[k].satellite_id = EngineSatellite
                    /\ topic'[k].type = "memory.promoted"
                    /\ topic'[k].payload.entry_id = x
        /\ \A r \in mem' :
              (r.status = "promoted" /\ <<r.entry_id, "promoted">> \notin StatusOf(mem))
              => /\ topic[position + 1].type = "memory.promoted"
                 /\ PayloadGet(topic[position + 1].payload, "entry_id", NULL)
                        = r.entry_id
      ]_vars

\* C8 witness: the last iteration emitted a synthetic promotion
C8_Witness ==
    /\ last.emitted # {}
    /\ \A x \in last.emitted : \E r \in mem : r.entry_id = x /\ r.status = "candidate"

\* C9: an entry that met the promotion rule during a sweep and that no
\* memory.retracted names is promoted and in the default read; stated for the
\* states in which everything published was delivered and committed, after
\* which nothing more is delivered.
C9_EligibleIsPromoted ==
    (position = Len(topic) /\ committed = Len(topic)) =>
        \A r \in mem :
            (/\ r.entry_id \in swept
             /\ r.confidence >= CONFIDENCE_THRESHOLD
             /\ \A i \in 1..Len(topic) :
                   ~(/\ topic[i].type = "memory.retracted"
                     /\ PayloadGet(topic[i].payload, "entry_id", NULL) = r.entry_id))
            => /\ r.status = "promoted"
               /\ r \in GetEntries(mem, r.workspace_id, "None", "None", FALSE, now)

\* C10: every synthetic promotion on the topic carries a confidence of at
\* least 0.75 and names no entry whose confidence is below 0.75.
C10_NoPromotionBelowThreshold ==
    \A i \in 1..Len(topic) :
        topic[i].satellite_id = EngineSatellite =>
            /\ topic[i].confidence >= CONFIDENCE_THRESHOLD
            /\ \A r \in mem :
                  r.entry_id = topic[i].payload.entry_id
                  => r.confidence >= CONFIDENCE_THRESHOLD

\* C10 witness: a synthetic promotion for an entry of confidence exactly 0.75,
\* while a candidate of confidence 0.74 of the same trace was left alone
C10_Witness ==
    /\ \E i \in 1..Len(topic) :
          /\ topic[i].satellite_id = EngineSatellite
          /\ topic[i].confidence = CONFIDENCE_THRESHOLD
    /\ \E r \in mem :
          /\ r.confidence < CONFIDENCE_THRESHOLD
          /\ r.status = "candidate"
          /\ last.event_id = r.entry_id
          /\ last.project = "ok"

\* trace ids in use on the topic
TraceIds == {topic[i].trace_id : i \in 1..Len(topic)}

\* C11: for every stored entry and every trace id, is_eligible answers true
\* exactly when the entry is a candidate of confidence at least 0.75 and the
\* log holds at least two events of the entry's workspace and that trace with
\* ts no earlier than created_at minus 7 days, or a decision.recorded event
\* of that workspace and trace.
C11_EligibleIff ==
    \A r \in mem : \A t \in TraceIds :
        IsEligible(r, t, log) <=>
            /\ r.status = "candidate"
            /\ 100 * r.confidence >= 75 * 100
            /\ \/ Cardinality({i \in 1..Len(log) :
                      /\ log[i].workspace_id = r.workspace_id
                      /\ log[i].trace_id = t
                      /\ log[i].ts + 7 * 24 >= r.created_at}) >= 2
               \/ \E i \in 1..Len(log) :
                      /\ log[i].workspace_id = r.workspace_id
                      /\ log[i].trace_id = t
                      /\ log[i].type = "decision.recorded"

\* C11 witness: the sweep found a candidate eligible through two references
\* of the trace, with no decision.recorded in the log
C11_Witness ==
    /\ \E r \in mem : r.entry_id \in last.emitted
    /\ \A i \in 1..Len(log) : log[i].type # "decision.recorded"

\* C12: while nobody replays, an entry's status only moves candidate ->
\* promoted, candidate -> retracted or promoted -> retracted; a retracted
\* entry stays retracted and out of the default read.
C12_RetractedIsTerminal ==
    [][\A r \in mem : \A x \in mem' :
          x.entry_id = r.entry_id =>
             /\ <<r.status, x.status>> \in
                   {<<"candidate", "candidate">>, <<"candidate", "promoted">>,
                    <<"candidate", "retracted">>, <<"promoted", "promoted">>,
                    <<"promoted", "retracted">>, <<"retracted", "retracted">>}
             /\ r.status = "retracted" =>
                   x \notin GetEntries(mem', x.workspace_id, "None", "None",
                                       FALSE, now')
      ]_vars

\* C13: no two entries share a source_event_id; a worker iteration that
\* applies a memory.candidate gets duplicate from create_entry exactly when an
\* entry of that source_event_id exists, and then leaves every entry as it
\* was, also one already promoted or retracted.
C13_CreateEntryIdempotent ==
    /\ [](\A r, x \in mem : r.source_event_id = x.source_event_id => r = x)
    /\ [][(WorkerStep /\ last'.created # "none") =>
            /\ (last'.created = "duplicate") <=>
                  (\E r \in mem : r.source_event_id = last'.event_id)
            /\ (last'.created = "duplicate") => mem' = mem
            /\ (last'.created = "inserted") =>
                  /\ mem \subseteq mem'
                  /\ Cardinality(mem') = Cardinality(mem) + 1
         ]_vars

\* C13 witness: a memory.candidate was applied again after its entry had been
\* promoted or retracted, and the entry still has that status
C13_Witness ==
    /\ last.created = "duplicate"
    /\ \E r \in mem : /\ r.source_event_id = last.event_id
                      /\ r.status \in {"promoted", "retracted"}

\* C14: every stored entry has expires_at set exactly when its bucket is
\* ephemeral, promoted_at set when it is promoted and retracted_at set when it
\* is retracted, after any events and replays.
C14_EntryInvariants ==
    \A r \in mem :
        /\ (r.bucket = "ephemeral") <=> (r.expires_at # NULL)
        /\ (r.status = "promoted") => (r.promoted_at # NULL)
        /\ (r.status = "retracted") => (r.retracted_at # NULL)

\* C14 witness: a replay rebuilt an ephemeral entry in status promoted
C14_Witness ==
    /\ clean # {}
    /\ \E r \in mem : r.bucket = "ephemeral" /\ r.status = "promoted"

\* the query strings and memory_limit values of the context pack requests
Queries == {"None", "k", "l", "zz"}

MemoryLimits == {1, 12}

\* C15: whatever the workspace, query and limit of the request, every item of
\* the memory section of a context pack is an entry of that workspace whose
\* status is promoted and whose expires_at is absent or later than now.
C15_ContextPackOnlyLive ==
    \A w \in Workspaces \cup {"ws-Z"} : \A q \in Queries : \A n \in MemoryLimits :
        \A section \in ContextPackMemory(mem, w, q, n, now) :
            \A item \in section :
                /\ item.status = "active"
                /\ \E r \in mem :
                      /\ r.entry_id = item.id
                      /\ r.workspace_id = w
                      /\ r.status = "promoted"
                      /\ (r.expires_at = NULL \/ r.expires_at > now)

\* C15 witness: a promoted ephemeral entry has expired and a candidate is
\* stored beside it; the pack of their workspace is empty
C15_Witness ==
    /\ \E r \in mem : /\ r.status = "promoted"
                      /\ r.expires_at # NULL
                      /\ r.expires_at <= now
    /\ \E r \in mem : r.status = "candidate"
    /\ \A w \in Workspaces : ContextPackMemory(mem, w, "None", 12, now) = {{}}

\* C16: the consumer loop can always take a malformed message at its fetch
\* position, and the iteration that takes it writes nothing to the log, the
\* entries, the cursor or the topic, commits the offset after the message and
\* moves on to the next offset.
C16_MalformedSkipped ==
    /\ []((position < Len(topic) /\ FromKafkaValue(topic[position + 1]).raised)
             => ENABLED HandleMalformed)
    /\ [][(WorkerStep /\ FromKafkaValue(topic[position + 1]).raised) =>
            /\ last'.malformed
            /\ last'.persist = "none"
            /\ last'.project = "none"
            /\ log' = log /\ mem' = mem /\ cursor' = cursor /\ topic' = topic
            /\ committed' = position + 1
         ]_vars

\* C16 witness: the message after a malformed one was persisted and projected
C16_Witness ==
    /\ last.persist = "inserted"
    /\ last.project = "ok"
    /\ last.offset > 0
    /\ FromKafkaValue(topic[last.offset]).raised
    /\ committed = last.offset + 1

\* C17: an iteration whose persist raises projects nothing, leaves log,
\* entries, cursor and topic as they were and makes no commit; an iteration
\* whose projection raises makes no commit; both move the loop on to the next
\* offset.
C17_NoCommitOnError ==
    [][WorkerStep =>
         /\ (last'.persist = "error") =>
               /\ last'.project = "none"
               /\ ~last'.commit
               /\ log' = log /\ mem' = mem /\ cursor' = cursor
               /\ topic' = topic
               /\ committed' = committed
         /\ (last'.project = "error") =>
               /\ ~last'.commit
               /\ committed' = committed
         /\ last'.offset = position
      ]_vars

\* C17 witness: persist raised for the message at some offset (its event is
\* not in the log) and the loop went on to persist and project the next one
C17_Witness ==
    /\ last.persist = "inserted"
    /\ last.project = "ok"
    /\ \E o \in ValidOffsets :
          /\ o < last.offset
          /\ FromKafkaValue(topic[o + 1]).event.event_id \notin LogIds(log)

\* C18: a memory.candidate that is in the log gets its entry created by some
\* delivery of its message.  Once the committed offset covers the whole topic
\* nothing is delivered again, so by then the entry must exist.
C18_PersistedIsProjected ==
    (position = Len(topic) /\ committed = Len(topic)) =>
        \A i \in 1..Len(log) :
            log[i].type = "memory.candidate" =>
                \E r \in mem : r.source_event_id = log[i].event_id

\* C19: an iteration, with no transient error, on a memory.promoted or
\* memory.retracted message whose payload has no entry_id leaves the event in
\* the log, changes no entry, completes the projection (the cursor names the
\* event) and commits the offset after the message.
C19_MissingEntryIdDropped ==
    [][(/\ WorkerStep
        /\ ~FromKafkaValue(topic[position + 1]).raised
        /\ topic[position + 1].type \in {"memory.promoted", "memory.retracted"}
        /\ "entry_id" \notin DOMAIN topic[position + 1].payload
        /\ faults' = faults)
       => /\ topic[position + 1].event_id \in LogIds(log')
          /\ mem' = mem
          /\ last'.project = "ok"
          /\ cursor' = <<[last_event_id |-> topic[position + 1].event_id,
                          last_event_ts |-> NormalizeTs(topic[position + 1].ts)]>>
          /\ committed' = position + 1
      ]_vars

\* C19 witness: a memory.retracted without entry_id was persisted, projected
\* and committed while a candidate was stored
C19_Witness ==
    /\ last.persist = "inserted"
    /\ last.project = "ok"
    /\ last.commit
    /\ topic[last.offset + 1].type = "memory.retracted"
    /\ "entry_id" \notin DOMAIN topic[last.offset + 1].payload
    /\ \E r \in mem : r.status = "candidate"

\* C20: when the worker is stopped while a message handler is in flight, the
\* handler completes first: the message is persisted and projected and the
\* offset after it is committed before the loop exits.
C20_StopCompletesInFlight ==
    [][StopInFlight => (position \in done' /\ committed' = position + 1)]_vars

\* a request body that passes the validation of its schema: the envelope
\* itself, or the envelope that the console fields stand for
RequestValid(b) ==
    IF "event_id" \in DOMAIN b THEN IsValidEnvelope(b)
    ELSE /\ "type" \in DOMAIN b
         /\ b.type \in EventTypes
         /\ PayloadGet(b, "workspace_id", "") # ""
         /\ PayloadGet(b, "severity", "low") \in
               {"info", "warning", "error", "critical", "low", "medium", "high"}
         /\ PayloadGet(PayloadGet(b, "metadata", EmptyPayload),
                       "confidence", 0) \in 0..100

\* C21: a POST /events request is answered accepted only when its body is
\* valid and this request put one valid message on the topic; a request with
\* an invalid body is answered 400 and leaves the topic as it was; a request
\* whose publish failed is answered with a server error.
C21_AcceptedAfterPublish ==
    [][(PostEvent \/ PostInvalid \/ PostConsole \/ PostPublishError) =>
         /\ (resp'.status = "accepted") =>
               /\ RequestValid(resp'.body)
               /\ Len(topic') = Len(topic) + 1
               /\ IsValidBody(topic'[Len(topic')])
               /\ faults' = faults
         /\ ~RequestValid(resp'.body) =>
               (resp'.status = "400" /\ topic' = topic)
         /\ (faults' # faults) => resp'.status = "500"
      ]_vars

MemoryStatuses == {"candidate", "promoted", "retracted"}

\* C23: on every state of the memory store and for every workspace, what
\* get_entries returns with default filters is contained in what it returns
\* with include_expired=true and status=promoted.
C23_DefaultSubsetOfPromoted ==
    \A w \in Workspaces :
        GetEntries(mem, w, "None", "None", FALSE, now) \subseteq
            GetEntries(mem, w, "None", "promoted", TRUE, now)

\* a workspace holds a promoted entry that has expired and a candidate, so
\* the two results differ and the store holds rows neither returns
C23_Witness ==
    \E w \in Workspaces :
        /\ GetEntries(mem, w, "None", "None", FALSE, now) #
              GetEntries(mem, w, "None", "promoted", TRUE, now)
        /\ \E r \in mem : r.workspace_id = w /\ r.status = "candidate"

\* C24: get_entries returns exactly the entries of the workspace with the
\* requested status (promoted when none is given), with the requested bucket
\* when one is given and, unless include_expired, with expires_at absent or
\* strictly later than now; an ephemeral entry with expires_at <= now is
\* excluded under every status filter and returned under include_expired
\* when its status is the requested one.
C24_GetEntriesFilters ==
    \A w \in Workspaces, bucket \in MemoryBuckets \cup {"None"},
       status \in MemoryStatuses \cup {"None"} :
        /\ \A include_expired \in BOOLEAN :
              GetEntries(mem, w, bucket, status, include_expired, now) =
                 {r \in mem :
                     /\ r.workspace_id = w
                     /\ r.status = (IF status = "None" THEN "promoted"
                                                       ELSE status)
                     /\ bucket = "None" \/ r.bucket = bucket
                     /\ \/ include_expired
                        \/ r.expires_at = NULL
                        \/ r.expires_at > now}
        /\ \A r \in mem :
              (r.workspace_id = w /\ r.bucket = "ephemeral" /\
               r.expires_at # NULL /\ r.expires_at <= now) =>
                 /\ r \notin GetEntries(mem, w, bucket, status, FALSE, now)
                 /\ (r.status = status /\ bucket \in {"None", "ephemeral"}) =>
                       r \in GetEntries(mem, w, bucket, status, TRUE, now)

\* the store holds an ephemeral candidate at the instant it expires and an
\* ephemeral candidate that expired earlier
C24_Witness ==
    /\ \E r \in mem : /\ r.bucket = "ephemeral"
                      /\ r.status = "candidate"
                      /\ r.expires_at = now
    /\ \E r \in mem : /\ r.bucket = "ephemeral"
                      /\ r.status = "candidate"
                      /\ r.expires_at # NULL
                      /\ r.expires_at < now

\* C25: replay(w) applies only the candidate, promoted and retracted
\* handlers to the rows of w: it publishes nothing, draws no event id for a
\* synthetic envelope, writes nothing to the event log, leaves the cursor
\* and the consumer's offsets alone, and an entry of w is promoted afterwards
\* only if the log of w holds a memory.promoted event naming it.
C25_ReplayOnlyHandlers ==
    [][\A w \in Workspaces :
         Replay(w) =>
           /\ topic' = topic
           /\ uuids' = uuids
           /\ log' = log
           /\ cursor' = cursor
           /\ position' = position /\ committed' = committed
           /\ \E events \in GetWorkspaceEvents(log, w) :
                 mem' = ReplayApply(DeleteWorkspaceEntries(mem, w), events)
           /\ \A r \in mem' :
                 (r.workspace_id = w /\ r.status = "promoted") =>
                    \E i \in 1..Len(log) :
                       /\ log[i].workspace_id = w
                       /\ log[i].type = "memory.promoted"
                       /\ PayloadGet(log[i].payload_json, "entry_id", NULL) =
                             r.entry_id
      ]_vars

\* a workspace has just been replayed and holds a candidate that a sweep
\* would promote
C25_Witness ==
    \E w \in clean :
        \E r \in mem, t \in TraceIds :
            /\ r.workspace_id = w
            /\ r.status = "candidate"
            /\ r.expires_at = NULL \/ r.expires_at > now
            /\ IsEligible(r, t, log)

\* C26: entries are removed only by replay. A step of ingest or of the
\* worker keeps every entry in the store under its id and workspace (a
\* retracted entry included), and replay(w) leaves the entries of every
\* workspace other than w exactly as they were.
C26_DeletedOnlyByReplay ==
    [][/\ (~ \E w \in Workspaces : Replay(w)) =>
             \A r \in mem :
                \E x \in mem' : /\ x.entry_id = r.entry_id
                                /\ x.workspace_id = r.workspace_id
       /\ \A w \in Workspaces :
             Replay(w) =>
                {r \in mem : r.workspace_id # w} =
                   {r \in mem' : r.workspace_id # w}
      ]_vars

\* C27: whenever the worker decodes a message and persist returns, inserted
\* or duplicate, process is invoked for the decoded envelope after the
\* persist: the row is in the log the projection reads, and a projection
\* that returns has applied the handler of the envelope and moved the cursor
\* to it.
C27_ProjectAfterPersist ==
    [][(position' = position + 1 /\
        last'.persist \in {"inserted", "duplicate"}) =>
          LET event == FromKafkaValue(topic[position + 1]).event
          IN  /\ last'.project \in {"ok", "error"}
              /\ log' = Persist(log, event).log
              /\ event.event_id \in LogIds(log')
              /\ last'.project = "ok" =>
                    /\ mem' = Handle(mem, event).mem
                    /\ cursor' = <<[last_event_id |-> event.event_id,
                                    last_event_ts |-> event.ts]>>
      ]_vars

\* a delivery that persist reported as a duplicate was projected and the
\* projection created the entry of the candidate
C27_Witness ==
    /\ last.persist = "duplicate"
    /\ last.project = "ok"
    /\ last.created = "inserted"

\* the calls of the event store that read and do not write
EventStoreReads == {"count_references", "has_event_type_in_trace"}

\* C28: is_eligible tests status, confidence, reference count and decision
\* in trace in this order and stops at the first decisive one: it reads
\* nothing from the event store when the entry is no candidate or its
\* confidence is below 0.75, it asks for the reference count first and for
\* the decision only when the count is below 2, and every call it makes is a
\* read.
C28_EligibleShortCircuit ==
    \A r \in mem, t \in TraceIds :
        LET reads == IsEligibleReads(r, t, log)
            refs == CountReferences(log, r.workspace_id, t,
                        r.created_at - REFERENCE_WINDOW_DAYS * HoursPerDay)
        IN  /\ \A k \in 1..Len(reads) : reads[k] \in EventStoreReads
            /\ (r.status # "candidate" \/ r.confidence < CONFIDENCE_THRESHOLD)
                  => (reads = <<>> /\ ~IsEligible(r, t, log))
            /\ (r.status = "candidate" /\ r.confidence >= CONFIDENCE_THRESHOLD)
                  => /\ Len(reads) >= 1
                     /\ reads[1] = "count_references"
                     /\ (refs >= MIN_REFERENCES) =>
                           (reads = <<"count_references">> /\
                            IsEligible(r, t, log))
                     /\ (refs < MIN_REFERENCES) =>
                           /\ reads = <<"count_references",
                                        "has_event_type_in_trace">>
                           /\ IsEligible(r, t, log) =
                                 HasEventTypeInTrace(log, r.workspace_id, t,
                                                     "decision.recorded")

\* the store holds a candidate below the threshold, and a candidate at the
\* threshold for which one trace has two references and another has fewer
C28_Witness ==
    /\ \E r \in mem : r.status = "candidate" /\ r.confidence < CONFIDENCE_THRESHOLD
    /\ \E r \in mem, t1, t2 \in TraceIds :
          /\ IsEligibleReads(r, t1, log) = <<"count_references">>
          /\ Len(IsEligibleReads(r, t2, log)) = 2

\* C29: whatever the type of the event, a process that returns has run the
\* sweep: it emitted a synthetic promotion for exactly the candidates of the
\* envelope's workspace that have not expired and that is_eligible accepts
\* for the envelope's trace_id, judged on the store as the handler left it;
\* and an event that is no memory event changes no entry.
C29_SweepAfterEveryEvent ==
    [][(position' = position + 1 /\ last'.project = "ok") =>
          LET event == FromKafkaValue(topic[position + 1]).event
              m == Handle(mem, event).mem
          IN  /\ last'.emitted =
                    {r.entry_id : r \in
                       {x \in m :
                          /\ x.workspace_id = event.workspace_id
                          /\ x.status = "candidate"
                          /\ x.expires_at = NULL \/ x.expires_at > now
                          /\ IsEligible(x, event.trace_id, log')}}
              /\ \A k \in (Len(topic) + 1)..Len(topic') :
                    /\ topic'[k].trace_id = event.trace_id
                    /\ topic'[k].workspace_id = event.workspace_id
                    /\ topic'[k].payload.entry_id \in last'.emitted
              /\ Len(topic') - Len(topic) = Cardinality(last'.emitted)
              /\ event.type \notin MEMORY_EVENT_TYPES => mem' = mem
      ]_vars

\* the sweep that followed an event that is no memory event emitted a
\* promotion
C29_Witness ==
    /\ last.project = "ok"
    /\ last.emitted # {}
    /\ topic[last.offset + 1].type \notin MEMORY_EVENT_TYPES

\* C30: every envelope the engine publishes has an event_id that no message
\* on the topic and no row of the log carries, type memory.promoted, the ts,
\* trace_id and severity of the event that triggered the sweep, the
\* workspace_id and confidence of the promoted entry, the satellite_id of the
\* projection engine and a payload that holds the entry's id as entry_id and
\* nothing else.
C30_SyntheticEnvelope ==
    [][\A k \in (Len(topic) + 1)..Len(topic') :
          topic'[k].satellite_id = EngineSatellite =>
             /\ position' = position + 1
             /\ LET event == FromKafkaValue(topic[position + 1]).event
                    s == topic'[k]
                IN  /\ \A j \in 1..Len(topic') :
                          j # k => topic'[j].event_id # s.event_id
                    /\ s.event_id \notin LogIds(log')
                    /\ s.schema_version = 1
                    /\ s.type = "memory.promoted"
                    /\ s.ts = <<event.ts, 0>>
                    /\ s.trace_id = event.trace_id
                    /\ s.severity = event.severity
                    /\ DOMAIN s.payload = {"entry_id"}
                    /\ \E r \in mem' :
                          /\ r.entry_id = s.payload.entry_id
                          /\ r.status = "candidate"
                          /\ s.workspace_id = r.workspace_id
                          /\ s.confidence = r.confidence
      ]_vars

\* the topic holds a synthetic envelope whose trigger was not the candidate
\* it promotes: its ts and severity differ from the candidate's
C30_Witness ==
    \E k \in 1..Len(topic) :
        /\ topic[k].satellite_id = EngineSatellite
        /\ topic[k].severity = "high"
        /\ \E r \in mem : /\ r.entry_id = topic[k].payload.entry_id
                          /\ r.created_at # topic[k].ts[1]

\* the timestamps and the event ids of the messages on the topic
TopicTimestamps == {NormalizeTs(topic[i].ts) : i \in 1..Len(topic)}

TopicEventIds == {topic[i].event_id : i \in 1..Len(topic)}

\* C31: for every stored entry, whatever its current status, and every
\* timestamp, update_status to promoted sets status, promoted_at and
\* updated_at, update_status to retracted sets status, retracted_at and
\* updated_at, each reports an update and leaves every other field and every
\* other entry as it was; for an id without an entry the call reports
\* not found and the store is unchanged.
C31_UpdateStatusEffect ==
    \A ts \in TopicTimestamps :
        /\ \A r \in mem :
              LET p == UpdateStatus(mem, r.entry_id, "promoted", ts)
                  q == UpdateStatus(mem, r.entry_id, "retracted", ts)
              IN  /\ p.updated /\ q.updated
                  /\ p.mem = (mem \ {r}) \cup
                        {[r EXCEPT !.status = "promoted",
                                   !.promoted_at = ts, !.updated_at = ts]}
                  /\ q.mem = (mem \ {r}) \cup
                        {[r EXCEPT !.status = "retracted",
                                   !.retracted_at = ts, !.updated_at = ts]}
        /\ \A id \in TopicEventIds \ {r.entry_id : r \in mem} :
              \A status \in {"promoted", "retracted"} :
                 UpdateStatus(mem, id, status, ts) =
                    [updated |-> FALSE, mem |-> mem]

\* the worker promoted an entry that was retracted before, and the topic
\* holds an event id that names no entry
C31_Witness ==
    /\ \E r \in mem : /\ r.status = "promoted"
                      /\ r.retracted_at # NULL
                      /\ r.promoted_at = r.updated_at
    /\ TopicEventIds \ {r.entry_id : r \in mem} # {}

\* C32: when the worker projects a memory.candidate event into a new entry,
\* the entry has the event's id and workspace, status candidate, bucket
\* payload.bucket or workspace, value payload.value or {}, the envelope's
\* confidence, created_at = updated_at = the envelope's ts, no promoted_at or
\* retracted_at, and expires_at = ts + payload.ttl_hours (24 when left out)
\* exactly when the bucket is ephemeral and none otherwise.
C32_CandidateProjection ==
    [][(position' = position + 1 /\ last'.created = "inserted") =>
          LET event == FromKafkaValue(topic[position + 1]).event
              p == event.payload
              bucket == IF "bucket" \in DOMAIN p THEN p.bucket
                                                 ELSE "workspace"
              ttl == IF "ttl_hours" \in DOMAIN p THEN p.ttl_hours ELSE 24
          IN  /\ event.type = "memory.candidate"
              /\ \E r \in mem' :
                    /\ mem' = mem \cup {r}
                    /\ r \notin mem
                    /\ r.entry_id = event.event_id
                    /\ r.workspace_id = event.workspace_id
                    /\ r.status = "candidate"
                    /\ r.bucket = bucket
                    /\ r.value = (IF "value" \in DOMAIN p THEN p.value
                                                          ELSE "{}")
                    /\ r.confidence = event.confidence
                    /\ r.created_at = event.ts /\ r.updated_at = event.ts
                    /\ r.promoted_at = NULL /\ r.retracted_at = NULL
                    /\ r.expires_at = (IF bucket = "ephemeral"
                                       THEN event.ts + ttl ELSE NULL)
      ]_vars

\* the worker has projected an ephemeral candidate with the default time to
\* live and one with a time to live of its own
C32_Witness ==
    /\ last.created = "inserted"
    /\ \E r \in mem : r.bucket = "ephemeral" /\ r.expires_at = r.created_at + 24
    /\ \E r \in mem : r.bucket = "ephemeral" /\ r.expires_at = r.created_at + 48

\* C33: a memory.candidate event whose payload has no key, or an empty one,
\* is projected like any other: unless a transient error strikes, process
\* returns, the store holds the event's entry with key "", and the offset is
\* committed.
C33_EmptyKeyPermitted ==
    [][(position' = position + 1 /\
        last'.persist \in {"inserted", "duplicate"} /\ faults' = faults) =>
          LET event == FromKafkaValue(topic[position + 1]).event
          IN  (event.type = "memory.candidate" /\
               PayloadGet(event.payload, "key", "") = "") =>
                 /\ last'.project = "ok"
                 /\ \E r \in mem' : r.entry_id = event.event_id /\ r.key = ""
                 /\ committed' = position + 1
      ]_vars

\* C34: after an iteration whose process returned, whatever the type of the
\* event, the cursor holds the event's id and ts; after an iteration whose
\* process raised, in the handler, in the sweep or in the cursor write, and
\* after one that never reached process, the cursor holds what it held
\* before.
C34_CursorFollowsProcess ==
    [][(position' = position + 1) =>
          /\ (last'.project = "ok") =>
                LET event == FromKafkaValue(topic[position + 1]).event
                IN  cursor' = <<[last_event_id |-> event.event_id,
                                 last_event_ts |-> event.ts]>>
          /\ (last'.project \in {"error", "none"}) => cursor' = cursor
      ]_vars

\* the cursor names an earlier event although the worker has since handled
\* another one, whose projection raised
C34_Witness ==
    /\ last.project = "error"
    /\ cursor # <<>>
    /\ cursor[1].last_event_id # last.event_id

Sinces == {NULL, 0}

SectionLimits == {1, 2, 8}

\* the rows of a section are n most recent ones among the candidates: as
\* many as the limit allows, and none older than a row left out
MostRecent(section, candidates, n) ==
    LET got == {section[k] : k \in 1..Len(section)}
    IN  /\ got \subseteq candidates
        /\ Cardinality(got) = Len(section)
        /\ Len(section) = (IF Cardinality(candidates) < n
                           THEN Cardinality(candidates) ELSE n)
        /\ \A a \in got, b \in candidates \ got : a.ts >= b.ts

\* C36: for every workspace, since and section limit N, the decisions and the
\* tasks section of a context pack hold the N most recent events of their
\* type with ts after since; when there are more than N, the oldest are the
\* ones left out.
C36_SectionsMostRecent ==
    \A w \in Workspaces, since \in Sinces, n \in SectionLimits :
        \A pack \in ContextPackEvents(log, w, since, now, n, n) :
            LET after == IF since # NULL THEN since
                         ELSE now - SINCE_DEFAULT_DAYS * HoursPerDay
                of(type) == {log[i] : i \in
                               {j \in 1..Len(log) :
                                  /\ log[j].workspace_id = w
                                  /\ log[j].type = type
                                  /\ log[j].ts > after}}
            IN  /\ MostRecent(pack.decisions, of("decision.recorded"), n)
                /\ MostRecent(pack.tasks, of("task.created"), n)

\* the log holds an event of the given type whose payload names the entry
LogNames(type, entry_id) ==
    \E i \in 1..Len(log) :
        /\ log[i].type = type
        /\ PayloadGet(log[i].payload_json, "entry_id", NULL) = entry_id

C38_OnlyOwnWorkspace ==
    [][/\ (position' = position + 1 /\
           last'.persist \in {"inserted", "duplicate"}) =>
             LET w == FromKafkaValue(topic[position + 1]).event.workspace_id
             IN  \A r \in mem : r.workspace_id # w => r \in mem'
       /\ \A w \in Workspaces :
             Replay(w) => \A r \in mem : r.workspace_id # w => r \in mem'
      ]_vars

\* C39: the topic never holds two synthetic promotions of the engine for the
\* same entry: once one is published, no later event, and not the synthetic
\* promotion itself when it is consumed, makes the engine publish another.
C39_OneSyntheticPerEntry ==
    \A i, j \in 1..Len(topic) :
        (/\ topic[i].satellite_id = EngineSatellite
         /\ topic[j].satellite_id = EngineSatellite
         /\ topic[i].payload.entry_id = topic[j].payload.entry_id)
        => i = j

\* C40: when a replay(w) that ran beside the worker returns and the worker
\* has handled every message published so far, the entries of w are those a
\* replay(w) run alone on the log as it then stands would build, for some
\* order in which that replay may read the rows; stated for runs without
\* transient errors and restarts.
C40_ConcurrentReplay ==
    [][(rp.phase # "idle" /\ rp'.phase = "idle" /\
        position' = Len(topic') /\ faults' = 0 /\ restarts' = 0) =>
          \E events \in GetWorkspaceEvents(log', rp.w) :
             {r \in mem' : r.workspace_id = rp.w} =
                {r \in ReplayApply(DeleteWorkspaceEntries(mem', rp.w), events) :
                    r.workspace_id = rp.w}
      ]_vars

====
